---- MODULE Spec2Model ----
(***************************************************************************)
(* dessert: locate a rar archive, derive a destination file name from its  *)
(* stem (get_destination_file_name) and extract its entries into the       *)
(* destination directory (extract_rar_file).                               *)
(*                                                                         *)
(* Two specifications:                                                     *)
(*   Spec      the entry walk of extract_rar_file over an archive and a    *)
(*             destination directory, with every fallible call able to     *)
(*             fail, and the program run again after a successful run;     *)
(*   SpecName  get_destination_file_name applied to archive stems.         *)
(* Text is a sequence of one-character strings.                            *)
(***************************************************************************)
EXTENDS Integers, Sequences, FiniteSets, TLC

\* ---------------------------------------------------------------- bounds
MaxEntries == 2
MaxSize == 2
MaxRuns == 2
MaxParts == 4

VARIABLES
    entries,    \* the archive: the sequence of entry headers unrar yields
    fs,         \* destination directory: extension -> file at <file_name>.<ext>
    fsStart,    \* fs as it was when the current run started
    pc,         \* position of extract_rar_file
    idx,        \* number of headers read so far in this run
    run,        \* 1 for the first invocation, 2 for the next, ...
    trace,      \* the calls this run has issued, in order, with their results
    err,        \* the error extract_rar_file returned, "" when none
    stem,       \* the rar file's stem, input of get_destination_file_name
    parts,      \* number of pieces the stem was composed of
    npc,        \* position of get_destination_file_name
    result      \* what get_destination_file_name returned

vars == <<entries, fs, fsStart, pc, idx, run, trace, err, stem, parts, npc, result>>

walkVars == <<entries, fs, fsStart, pc, idx, run, trace, err>>
nameVars == <<stem, parts, npc, result>>

\* ------------------------------------------------------- archive and disk
NoExt == "none"
Exts == {"mkv", "nfo"}
NoFile == [size |-> -1, content |-> <<>>]

\* what a file holds: what was there before the first run, the bytes of
\* entry i, or the part a failed extraction wrote
OldContent == <<"old">>
PartialContent == <<"partial">>
EntryContent(i) == <<"entry", i>>

Sizes == 1..MaxSize

DirEntry == [isFile |-> FALSE, ext |-> NoExt, size |-> 0]
FileEntries == [isFile : {TRUE}, ext : Exts \cup {NoExt}, size : Sizes]
EntryKinds == {DirEntry} \cup FileEntries

RECURSIVE SeqsUpTo(_, _)
SeqsUpTo(S, n) ==
    IF n = 0 THEN {<<>>}
    ELSE LET shorter == SeqsUpTo(S, n - 1)
         IN  shorter \cup {Append(s, x) : s \in {t \in shorter : Len(t) = n - 1}, x \in S}

Archives == SeqsUpTo(EntryKinds, MaxEntries)

\* what the directory may hold before the first run, truncated files included
OldFiles == [size : 0..MaxSize, content : {OldContent}]
Directories == [Exts -> {NoFile} \cup OldFiles]

\* one call of the walk: op on entry i with result res; n is the length
\* metadata() returned (0 for the other calls)
CallN(op, i, res, n) == [op |-> op, i |-> i, res |-> res, n |-> n]
Call(op, i, res) == CallN(op, i, res, 0)

\* ------------------------------------------------- extract_rar_file, steps
cur == entries[idx]

\* `?` on an Err: the function returns the error
Fail(e, call) ==
    /\ pc' = "failed"
    /\ err' = e
    /\ trace' = Append(trace, call)

\* Archive::new(rar_file).open_for_processing()
OpenArchive ==
    /\ pc = "open"
    /\ \/ /\ pc' = "read"
          /\ trace' = Append(trace, Call("open", 0, "ok"))
          /\ UNCHANGED err
       \/ Fail("Failed to open rar file for processing", Call("open", 0, "err"))
    /\ UNCHANGED <<entries, fs, fsStart, idx, run>>
    /\ UNCHANGED nameVars

\* where the walk goes when read_header returns None
AtEndNeedsPayload ==
    IF \E i \in 1..idx : entries[i].isFile THEN "done" ELSE "failed"
AtEnd == "done"

\* while let Some(header) = archive.read_header()?
ReadHeader ==
    /\ pc = "read"
    /\ \/ /\ idx < Len(entries)
          /\ idx' = idx + 1
          /\ pc' = "header"
          /\ trace' = Append(trace, Call("read", idx + 1, "some"))
          /\ UNCHANGED err
       \/ /\ idx = Len(entries)
          /\ pc' = AtEnd
          /\ err' = IF AtEnd = "failed" THEN "NoPayloadEntry" ELSE err
          /\ trace' = Append(trace, Call("read", idx, "eof"))
          /\ UNCHANGED idx
       \/ /\ Fail("Failed to read rar", Call("read", idx, "err"))
          /\ UNCHANGED idx
    /\ UNCHANGED <<entries, fs, fsStart, run>>
    /\ UNCHANGED nameVars

\* header.skip()? for an entry that is not a file
SkipEntry ==
    /\ pc = "header"
    /\ ~cur.isFile
    /\ \/ /\ pc' = "read"
          /\ trace' = Append(trace, Call("skip", idx, "ok"))
          /\ UNCHANGED err
       \/ Fail("Failed to skip rar file header", Call("skip", idx, "err"))
    /\ UNCHANGED <<entries, fs, fsStart, idx, run>>
    /\ UNCHANGED nameVars

\* where the walk goes for a file entry whose name has no extension
OnNoExtensionPassOver == "read"
OnNoExtension == "failed"

\* the entry's extension, the destination path and destination.exists()
ResolveDestination ==
    /\ pc = "header"
    /\ cur.isFile
    /\ IF cur.ext = NoExt
       THEN /\ pc' = OnNoExtension
            /\ err' = IF OnNoExtension = "failed"
                      THEN "Failed to get file extension from rar header" ELSE err
            /\ trace' = Append(trace, Call("extension", idx, "none"))
       ELSE /\ pc' = IF fs[cur.ext] # NoFile THEN "size" ELSE "extract"
            /\ trace' = Append(trace, Call("exists", idx,
                                   IF fs[cur.ext] # NoFile THEN "present" ELSE "absent"))
            /\ UNCHANGED err
    /\ UNCHANGED <<entries, fs, fsStart, idx, run>>
    /\ UNCHANGED nameVars

\* header.entry().unpacked_size != destination.metadata().len()
SizeDiffersNever(entry, file) == FALSE
SizeDiffersAlways(entry, file) == TRUE
SizeDiffersGeq(entry, file) == entry.size >= file.size
SizeDiffers(entry, file) == entry.size # file.size

\* the skip branch ends the walk: break
AfterSkipContinue == "read"
AfterSkip == "done"

\* destination.metadata()? and the comparison of sizes
CompareSize ==
    /\ pc = "size"
    /\ \/ IF SizeDiffers(cur, fs[cur.ext])
          THEN /\ pc' = "remove"
               /\ trace' = Append(trace, CallN("size", idx, "unequal", fs[cur.ext].size))
               /\ UNCHANGED err
          ELSE /\ pc' = AfterSkip
               /\ trace' = Append(trace, CallN("size", idx, "equal", fs[cur.ext].size))
               /\ UNCHANGED err
       \/ Fail("Failed to read file size of existing destination file",
               Call("size", idx, "err"))
    /\ UNCHANGED <<entries, fs, fsStart, idx, run>>
    /\ UNCHANGED nameVars

\* where the walk goes when remove_file fails
OnRemoveErrorIgnored == "extract"
OnRemoveError == "failed"

\* std::fs::remove_file(&destination)?
RemoveFile ==
    /\ pc = "remove"
    /\ \/ /\ fs' = [fs EXCEPT ![cur.ext] = NoFile]
          /\ pc' = "extract"
          /\ trace' = Append(trace, Call("remove", idx, "ok"))
          /\ UNCHANGED err
       \/ /\ pc' = OnRemoveError
          /\ err' = IF OnRemoveError = "failed"
                    THEN "Failed to remove existing destination file" ELSE err
          /\ trace' = Append(trace, Call("remove", idx, "err"))
          /\ UNCHANGED fs
    /\ UNCHANGED <<entries, fsStart, idx, run>>
    /\ UNCHANGED nameVars

\* the loop goes on with the archive extract_to returns
AfterExtract == "read"

\* header.extract_to(destination)?; a failed extraction may leave a partial file
ExtractTo ==
    /\ pc = "extract"
    /\ \/ /\ fs' = [fs EXCEPT ![cur.ext] = [size |-> cur.size, content |-> EntryContent(idx)]]
          /\ pc' = AfterExtract
          /\ trace' = Append(trace, Call("extract", idx, "ok"))
          /\ UNCHANGED err
       \/ /\ Fail("Failed to extract rar file", Call("extract", idx, "err"))
          /\ \/ UNCHANGED fs
             \/ \E n \in 0..(cur.size - 1) :
                  fs' = [fs EXCEPT ![cur.ext] = [size |-> n, content |-> PartialContent]]
    /\ UNCHANGED <<entries, fsStart, idx, run>>
    /\ UNCHANGED nameVars

\* the program is started again on the same archive and destination directory
\* after a run that succeeded
RunAgain ==
    /\ pc = "done"
    /\ run < MaxRuns
    /\ run' = run + 1
    /\ pc' = "open"
    /\ idx' = 0
    /\ trace' = <<>>
    /\ err' = ""
    /\ fsStart' = fs
    /\ UNCHANGED <<entries, fs>>
    /\ UNCHANGED nameVars

Init ==
    /\ entries \in Archives
    /\ fs \in Directories
    /\ fsStart = fs
    /\ pc = "open"
    /\ idx = 0
    /\ run = 1
    /\ trace = <<>>
    /\ err = ""
    /\ stem = <<>>
    /\ parts = 0
    /\ npc = "off"
    /\ result = [ok |-> FALSE, form |-> "none", text |-> <<>>]

Next ==
    \/ OpenArchive
    \/ ReadHeader
    \/ SkipEntry
    \/ ResolveDestination
    \/ CompareSize
    \/ RemoveFile
    \/ ExtractTo
    \/ RunAgain

Spec == Init /\ [][Next]_vars

\* ---------------------------------------------------------------- text
Digits == {"0", "1", "2", "3", "4", "5", "6", "7", "8", "9"}
LowerCase == <<"a", "b", "c", "d", "e", "f", "g", "h", "i", "j", "k", "l", "m",
               "n", "o", "p", "q", "r", "s", "t", "u", "v", "w", "x", "y", "z">>
UpperCase == <<"A", "B", "C", "D", "E", "F", "G", "H", "I", "J", "K", "L", "M",
               "N", "O", "P", "Q", "R", "S", "T", "U", "V", "W", "X", "Y", "Z">>

ToUpper(c) ==
    IF \E n \in DOMAIN LowerCase : LowerCase[n] = c
    THEN UpperCase[CHOOSE n \in DOMAIN LowerCase : LowerCase[n] = c]
    ELSE c
ToLower(c) ==
    IF \E n \in DOMAIN UpperCase : UpperCase[n] = c
    THEN LowerCase[CHOOSE n \in DOMAIN UpperCase : UpperCase[n] = c]
    ELSE c

\* the character at position k of t, "" when there is none
At(t, k) == IF k \in DOMAIN t THEN t[k] ELSE ""
IsDigit(c) == c \in Digits
Slice(t, from, to) == [k \in 1..(to - from + 1) |-> t[from + k - 1]]
SetMax(S) == CHOOSE x \in S : \A y \in S : y <= x
SetMin(S) == CHOOSE x \in S : \A y \in S : x <= y

\* str::replace('.', " ")
ReplaceDots(t) == [k \in DOMAIN t |-> IF t[k] = "." THEN " " ELSE t[k]]

\* str::trim
Trim(t) ==
    LET solid == {k \in DOMAIN t : t[k] # " "}
    IN  IF solid = {} THEN <<>> ELSE Slice(t, SetMin(solid), SetMax(solid))

\* the words of t, split at each space
RECURSIVE SplitWords(_, _, _, _)
SplitWords(t, k, word, acc) ==
    IF k > Len(t) THEN Append(acc, word)
    ELSE IF t[k] = " " THEN SplitWords(t, k + 1, <<>>, Append(acc, word))
    ELSE SplitWords(t, k + 1, Append(word, t[k]), acc)

RECURSIVE JoinWords(_, _)
JoinWords(words, k) ==
    IF k > Len(words) THEN <<>>
    ELSE IF k = Len(words) THEN words[k]
    ELSE words[k] \o <<" ">> \o JoinWords(words, k + 1)

\* titlecase::titlecase: the first letter of every word is capitalised, but a
\* small word that is neither the first nor the last word is lower-cased
SmallWords == {<<"a">>, <<"a", "n">>, <<"o", "f">>, <<"t", "h", "e">>, <<"t", "o">>}
TitleWord(w, inside) ==
    IF w = <<>> THEN w
    ELSE IF inside /\ Len(w) <= 3 /\ [j \in DOMAIN w |-> ToLower(w[j])] \in SmallWords
    THEN [j \in DOMAIN w |-> ToLower(w[j])]
    ELSE <<ToUpper(w[1])>> \o Tail(w)
TitleCase(t) ==
    LET words == SplitWords(t, 1, <<>>, <<>>)
    IN  JoinWords([k \in DOMAIN words |->
                      TitleWord(words[k], k # 1 /\ k # Len(words))], 1)

\* titlecase(name.as_str().replace('.', " ").trim())
Title(name) == TitleCase(Trim(ReplaceDots(name)))

\* --------------------------------------------- get_destination_file_name
\* .* takes the longest prefix the rest of the pattern accepts; with the
\* greediness swapped it takes the shortest
StarLength(greedy, lengths) == IF greedy THEN SetMax(lengths) ELSE SetMin(lengths)

\* [sS]\d{1,2}.?[eE]\d{1,2} right after a name of k characters, the season
\* taking sl digits and .? taking sep characters
EpisodeTailFits(t, k, sl, sep) ==
    /\ At(t, k + 1) \in {"s", "S"}
    /\ \A j \in 1..sl : IsDigit(At(t, k + 1 + j))
    /\ sep = 1 => At(t, k + 2 + sl) # ""
    /\ At(t, k + 2 + sl + sep) \in {"e", "E"}
    /\ IsDigit(At(t, k + 3 + sl + sep))

\* the order in which the matcher tries them: \d{1,2} and .? take the most first
EpisodeTries == <<[sl |-> 2, sep |-> 1], [sl |-> 2, sep |-> 0],
                  [sl |-> 1, sep |-> 1], [sl |-> 1, sep |-> 0]>>

EpisodeNameLengths(t) ==
    {k \in 0..Len(t) :
        \E n \in DOMAIN EpisodeTries :
            EpisodeTailFits(t, k, EpisodeTries[n].sl, EpisodeTries[n].sep)}

\* Regex::new(..).captures(file_name) is Some
EpisodeMatches(t) == EpisodeNameLengths(t) # {}

\* the captures name, season and episode
EpisodeCaptures(t) ==
    LET k == StarLength(TRUE, EpisodeNameLengths(t))
        n == SetMin({m \in DOMAIN EpisodeTries :
                EpisodeTailFits(t, k, EpisodeTries[m].sl, EpisodeTries[m].sep)})
        sl == EpisodeTries[n].sl
        e == k + 3 + sl + EpisodeTries[n].sep
        el == IF IsDigit(At(t, e + 1)) THEN 2 ELSE 1
    IN  [name |-> Slice(t, 1, k),
         season |-> Slice(t, k + 2, k + 1 + sl),
         episode |-> Slice(t, e, e + el - 1)]

\* .swap_greed(true) of the movie pattern's builder
SwapGreedOff == FALSE
SwapGreed == TRUE

\* \.\d{4} right after a name of k characters
YearLength == 4
MovieTailFits(t, k) ==
    /\ At(t, k + 1) = "."
    /\ \A j \in 1..YearLength : IsDigit(At(t, k + 1 + j))

MovieNameLengths(t) == {k \in 0..Len(t) : MovieTailFits(t, k)}

\* RegexBuilder::new(..).swap_greed(true).build().captures(file_name) is Some
MovieMatches(t) == MovieNameLengths(t) # {}

\* the captures name and year
MovieCaptures(t) ==
    LET k == StarLength(~SwapGreed, MovieNameLengths(t))
    IN  [name |-> Slice(t, 1, k),
         year |-> Slice(t, k + 2, k + 1 + YearLength)]

\* {:02} applied to a &str: the width is filled with spaces after the text
\* (the 0 flag only acts on numbers)
FormatWidth == 2
RECURSIVE PadStr(_, _)
PadStr(t, width) == IF Len(t) >= width THEN t ELSE PadStr(Append(t, " "), width)

\* format!("{} - S{:02}E{:02}", name, season, episode)
FormatEpisode(t) ==
    LET c == EpisodeCaptures(t)
    IN  [ok |-> TRUE, form |-> "episode",
         text |-> Title(c.name) \o <<" ", "-", " ", "S">> \o PadStr(c.season, FormatWidth)
                    \o <<"E">> \o PadStr(c.episode, FormatWidth)]

\* format!("{} ({})", name, year)
FormatMovie(t) ==
    LET c == MovieCaptures(t)
    IN  [ok |-> TRUE, form |-> "movie",
         text |-> Title(c.name) \o <<" ", "(">> \o c.year \o <<")">>]

\* Err("Failed to get destination file name from rar file stem")
NoName == [ok |-> FALSE, form |-> "none", text |-> <<>>]

GetDestinationFileNameMovieFirst(t) ==
    IF MovieMatches(t) THEN FormatMovie(t)
    ELSE IF EpisodeMatches(t) THEN FormatEpisode(t)
    ELSE NoName

GetDestinationFileName(t) ==
    IF EpisodeMatches(t) THEN FormatEpisode(t)
    ELSE IF MovieMatches(t) THEN FormatMovie(t)
    ELSE NoName

\* the pieces archive stems are put together from, joined by periods
Pieces ==
    { <<"t", "h", "e">>, <<"s", "h", "o", "w">>, <<"m", "o", "v", "i", "e">>,
      <<"r", "e", "m", "a", "s", "t", "e", "r", "e", "d">>,
      <<"1", "9", "9", "9">>, <<"2", "0", "1", "5">>,
      <<"s", "1", "e", "2">>, <<"s", "0", "1", "e", "0", "2">>,
      <<"S", "1", ".", "E", "2">> }

\* the rar file found in the source directory has a stem of one more piece
ComposeStem(w) ==
    /\ npc = "compose"
    /\ parts < MaxParts
    /\ stem' = IF stem = <<>> THEN w ELSE stem \o <<".">> \o w
    /\ parts' = parts + 1
    /\ UNCHANGED <<npc, result>>
    /\ UNCHANGED walkVars

\* run calls get_destination_file_name(&rar_file)
Classify ==
    /\ npc = "compose"
    /\ parts >= 1
    /\ result' = GetDestinationFileName(stem)
    /\ npc' = "done"
    /\ UNCHANGED <<stem, parts>>
    /\ UNCHANGED walkVars

InitName ==
    /\ entries = <<>>
    /\ fs = [e \in Exts |-> NoFile]
    /\ fsStart = fs
    /\ pc = "off"
    /\ idx = 0
    /\ run = 1
    /\ trace = <<>>
    /\ err = ""
    /\ stem = <<>>
    /\ parts = 0
    /\ npc = "compose"
    /\ result = NoName

NextName ==
    \/ \E w \in Pieces : ComposeStem(w)
    \/ Classify

SpecName == InitName /\ [][NextName]_vars

\* ------------------------------------------------------ the walk's claims
Last == trace[Len(trace)]
Issued(ops) == {k \in DOMAIN trace : trace[k].op \in ops}
IssuedFor(ops, i) == {k \in Issued(ops) : trace[k].i = i}
Mutations == {"remove", "extract"}
Payloads == {i \in DOMAIN entries : entries[i].isFile}
IsFirstPayload(i) == i \in Payloads /\ \A j \in Payloads : i <= j
Resolved(k) ==
    \/ trace[k].op = "extract" /\ trace[k].res = "ok"
    \/ trace[k].op = "size" /\ trace[k].res = "equal"
Skipped == trace # <<>> /\ Last.op = "size" /\ Last.res = "equal"
NoExtensionError == "Failed to get file extension from rar header"

\* C1 as stated: once a payload entry has been extracted, skipped or replaced,
\* no later entry is read and nothing more is deleted or extracted, so a run
\* issues at most one extract.
C1_StopsAfterFirstPayload ==
    /\ \A k \in DOMAIN trace : Resolved(k) =>
          \A j \in DOMAIN trace : j > k =>
              /\ ~(trace[j].op = "read" /\ trace[j].res = "some")
              /\ trace[j].op \notin Mutations
    /\ Cardinality(Issued({"extract"})) <= 1

\* C1 amended: the walk stops at a payload entry only when that entry is
\* skipped (the destination exists with the entry's size): the skip is the
\* run's last call and the run is over. After an extraction the walk goes on:
\* the next call is read_header.
C1_StopsOnlyOnSkip ==
    \A k \in DOMAIN trace :
        /\ (trace[k].op = "size" /\ trace[k].res = "equal") =>
              k = Len(trace) /\ pc = "done"
        /\ (trace[k].op = "extract" /\ trace[k].res = "ok") =>
              IF k = Len(trace) THEN pc = "read" ELSE trace[k + 1].op = "read"

\* one payload entry was extracted and the walk went on to the next, which
\* was skipped and ended the walk
C1_Witness ==
    /\ pc = "done" /\ Skipped
    /\ \E k \in Issued({"extract"}) : trace[k].res = "ok" /\ trace[k + 1].op = "read"

\* the first payload entry's destination holds a file of that entry's size
\* when the run starts
FirstPayloadSettled ==
    \E p \in Payloads :
        /\ IsFirstPayload(p)
        /\ entries[p].ext # NoExt
        /\ fsStart[entries[p].ext] # NoFile
        /\ fsStart[entries[p].ext].size = entries[p].size

Untouched ==
    /\ Issued(Mutations) = {}
    /\ fs = fsStart

\* C2 as stated: a run after a successful run on the same archive deletes
\* nothing, extracts nothing, leaves the directory as it was and (the archive
\* having a payload entry) ends in the skip outcome.
C2_SecondRunSkips ==
    run >= 2 => /\ Untouched
                /\ (pc = "done" /\ Payloads # {}) => Skipped

\* C2 amended: the same, provided the successful first run left the first
\* payload entry's destination with that entry's size.
C2_SecondRunSkipsWhenSettled ==
    (run >= 2 /\ FirstPayloadSettled) =>
        /\ Untouched
        /\ pc = "done" => Skipped
        /\ pc = "done" => \E p \in Payloads : IsFirstPayload(p) /\ Last.i = p

\* the second run has ended on a file the first run extracted
C2_Witness ==
    /\ run = 2 /\ pc = "done" /\ Skipped
    /\ FirstPayloadSettled
    /\ fsStart[entries[Last.i].ext].content = EntryContent(Last.i)

Exhausted == trace # <<>> /\ Last.op = "read" /\ Last.res = "eof"

\* C3 as stated: an exhausted archive with only directory entries makes the
\* walk fail with NoPayloadEntry.
C3_NoPayloadFails ==
    (Exhausted /\ Payloads = {}) => (pc = "failed" /\ err = "NoPayloadEntry")

\* C3 amended: an exhausted archive with only directory entries (or none)
\* makes the walk return success, with nothing deleted or extracted.
C3_NoPayloadSucceeds ==
    (Exhausted /\ Payloads = {}) => (pc = "done" /\ err = "" /\ Untouched)

\* a walk over directory entries only has ended
C3_Witness ==
    /\ Exhausted /\ Payloads = {} /\ Len(entries) >= 2
    /\ pc = "done"

\* the destination of entry i existed with another size when it was compared
Mismatch(k) ==
    /\ trace[k].op = "size"
    /\ trace[k].res # "err"
    /\ trace[k].n # entries[trace[k].i].size

\* C4 as stated: when the first payload entry's destination exists with
\* another size, a successful run has issued exactly one delete and then
\* exactly one extract, and the destination holds that entry's content.
C4_ReplacedOnce ==
    \A k \in DOMAIN trace :
        (Mismatch(k) /\ IsFirstPayload(trace[k].i) /\ pc = "done") =>
            /\ Cardinality(Issued({"remove"})) = 1
            /\ Cardinality(Issued({"extract"})) = 1
            /\ \A d \in Issued({"remove"}) : \A x \in Issued({"extract"}) : d < x
            /\ fs[entries[trace[k].i].ext] =
                   [size |-> entries[trace[k].i].size, content |-> EntryContent(trace[k].i)]

\* C4 amended: when a payload entry's destination exists with another size,
\* the walk deletes it and then extracts that entry (the delete right after
\* the comparison, the extract right after the delete, each once for that
\* entry); right after the extract the destination holds the entry's content,
\* and a run that succeeds has done both.
C4_ReplacedOncePerEntry ==
    \A k \in DOMAIN trace : Mismatch(k) =>
        LET i == trace[k].i IN
        /\ IF k = Len(trace) THEN pc = "remove"
           ELSE trace[k + 1] = Call("remove", i, trace[k + 1].res)
        /\ \A x \in IssuedFor({"extract"}, i) :
               x = k + 2 /\ trace[k + 1] = Call("remove", i, "ok")
        /\ Cardinality(IssuedFor({"remove"}, i)) <= 1
        /\ Cardinality(IssuedFor({"extract"}, i)) <= 1
        /\ (Len(trace) = k + 2 /\ Last.res = "ok") =>
               fs[entries[i].ext] = [size |-> entries[i].size, content |-> EntryContent(i)]
        /\ pc = "done" =>
               /\ Len(trace) >= k + 2
               /\ trace[k + 1] = Call("remove", i, "ok")
               /\ trace[k + 2] = Call("extract", i, "ok")

\* an old file of another size was deleted and the entry extracted in its place
C4_Witness ==
    /\ Len(trace) >= 3
    /\ Mismatch(Len(trace) - 2)
    /\ IsFirstPayload(Last.i)
    /\ fsStart[entries[Last.i].ext].content = OldContent
    /\ Last = Call("extract", Last.i, "ok")
    /\ fs[entries[Last.i].ext].content = EntryContent(Last.i)

\* C5 as stated: when the walk fails for a missing extension, nothing has
\* been deleted or extracted during the run and the directory is as it was.
C5_NoExtensionBeforeAnyMutation ==
    /\ \A k \in DOMAIN trace : trace[k].op = "extension" =>
          pc = "failed" /\ err = NoExtensionError
    /\ (pc = "failed" /\ err = NoExtensionError) => Untouched

\* C5 amended: a payload entry without an extension makes the walk fail at
\* once, before anything is deleted or extracted for that entry; when it is
\* the archive's first payload entry, nothing was deleted or extracted in
\* the run and the directory is as it was.
C5_NoExtensionBeforeItsMutation ==
    \A k \in DOMAIN trace : trace[k].op = "extension" =>
        /\ k = Len(trace)
        /\ pc = "failed" /\ err = NoExtensionError
        /\ IssuedFor(Mutations, trace[k].i) = {}
        /\ IsFirstPayload(trace[k].i) => Untouched

\* the walk failed on a first payload entry without extension, after a
\* directory entry, with files in the directory
C5_Witness ==
    /\ pc = "failed" /\ err = NoExtensionError
    /\ Last.op = "extension" /\ Last.i >= 2 /\ IsFirstPayload(Last.i)
    /\ \E e \in Exts : fs[e] # NoFile

\* C9: a call that fails is the run's last call: the walk has returned the
\* error, nothing is read, deleted, extracted or retried after it.
C9_FailureAborts ==
    \A k \in DOMAIN trace : trace[k].res = "err" =>
        /\ k = Len(trace)
        /\ pc = "failed"
        /\ err # ""

\* a delete failed, after an earlier entry was extracted
C9_Witness ==
    /\ pc = "failed"
    /\ Last.op = "remove" /\ Last.res = "err"
    /\ \E k \in Issued({"extract"}) : trace[k].res = "ok"
    /\ fs[entries[Last.i].ext] # NoFile

\* C10: a delete is issued only right after the destination's size was read
\* and found different from the entry's; when the sizes are equal the run
\* ends in success at once, with nothing deleted or extracted for that entry
\* and the existing file as it was.
C10_DeleteOnlyOnMismatch ==
    \A k \in DOMAIN trace :
        /\ trace[k].op = "remove" =>
              k > 1 /\ Mismatch(k - 1) /\ trace[k - 1].i = trace[k].i
        /\ (trace[k].op = "size" /\ trace[k].res # "err"
                /\ trace[k].n = entries[trace[k].i].size) =>
              /\ k = Len(trace)
              /\ pc = "done" /\ err = ""
              /\ IssuedFor(Mutations, trace[k].i) = {}
              /\ fs[entries[trace[k].i].ext].size = trace[k].n

\* a file that was there before, of the entry's size, ended the run untouched
C10_Witness ==
    /\ pc = "done" /\ Skipped
    /\ fs[entries[Last.i].ext] = [size |-> entries[Last.i].size, content |-> OldContent]
    /\ fs = fsStart

\* ------------------------------------------------- the classifier's claims
\* the periods of t that four digits follow
YearGroups(t) ==
    {p \in DOMAIN t : t[p] = "." /\ \A j \in 1..4 : At(t, p + j) \in Digits}

\* the movie rendering of t with the group at period p taken as the year
MovieTextAt(t, p) ==
    Title(Slice(t, 1, p - 1)) \o <<" ", "(">> \o Slice(t, p + 1, p + 4) \o <<")">>

SeveralYears ==
    /\ npc = "done"
    /\ ~EpisodeMatches(stem)
    /\ Cardinality(YearGroups(stem)) >= 2

ExampleStem ==
    <<"m", "o", "v", "i", "e", ".", "1", "9", "9", "9", ".",
      "r", "e", "m", "a", "s", "t", "e", "r", "e", "d", ".", "2", "0", "1", "5">>

\* C6 as stated: of several period-delimited 4-digit groups in a movie-shaped
\* name the last one is the year and everything before it the title.
C6_LastYearGroup ==
    SeveralYears =>
        /\ result.ok
        /\ result.text = MovieTextAt(stem, SetMax(YearGroups(stem)))

\* C6 amended: of several period-delimited 4-digit groups in a movie-shaped
\* name the first one is the year and everything before it the title;
\* movie.1999.remastered.2015 renders "Movie (1999)".
C6_FirstYearGroup ==
    SeveralYears =>
        /\ result.ok
        /\ result.text = MovieTextAt(stem, SetMin(YearGroups(stem)))
        /\ stem = ExampleStem =>
               result.text = <<"M", "o", "v", "i", "e", " ", "(", "1", "9", "9", "9", ")">>

\* movie.1999.remastered.2015 was classified
C6_Witness ==
    /\ SeveralYears
    /\ stem = ExampleStem
    /\ result.form = "movie"

\* the text zero-padded on the left to two characters
RECURSIVE ZeroPad(_)
ZeroPad(t) == IF Len(t) >= 2 THEN t ELSE ZeroPad(<<"0">> \o t)

\* C7: an episode-shaped name renders "{Title} - S{season}E{episode}" with
\* season and episode zero-padded on the left to 2 digits.
C7_EpisodeZeroPadded ==
    (npc = "done" /\ EpisodeMatches(stem)) =>
        /\ result.ok
        /\ result.text =
              Title(EpisodeCaptures(stem).name) \o <<" ", "-", " ", "S">>
                  \o ZeroPad(EpisodeCaptures(stem).season)
                  \o <<"E">> \o ZeroPad(EpisodeCaptures(stem).episode)

\* the shapes of the two renderings, read off the text
EpisodeForm(t) ==
    /\ Len(t) >= 9
    /\ Slice(t, Len(t) - 8, Len(t) - 5) = <<" ", "-", " ", "S">>
    /\ t[Len(t) - 2] = "E"
MovieForm(t) ==
    /\ Len(t) >= 7
    /\ Slice(t, Len(t) - 6, Len(t) - 5) = <<" ", "(">>
    /\ \A j \in 1..4 : t[Len(t) - j] \in Digits
    /\ t[Len(t)] = ")"

\* C8: a name both patterns match is rendered in the episode form, never in
\* the movie form; the movie form only comes out when the episode pattern
\* does not match.
C8_EpisodeWins ==
    npc = "done" =>
        /\ (EpisodeMatches(stem) /\ MovieMatches(stem)) =>
               result.ok /\ EpisodeForm(result.text) /\ ~MovieForm(result.text)
        /\ (result.ok /\ MovieForm(result.text)) => ~EpisodeMatches(stem)

\* a name of both shapes, with the year before the episode marker, was classified
C8_Witness ==
    /\ npc = "done"
    /\ EpisodeMatches(stem) /\ MovieMatches(stem)
    /\ SetMin(YearGroups(stem)) < SetMax(EpisodeNameLengths(stem))
    /\ EpisodeForm(result.text)

====
